---- MODULE Spec2Model ----
(***************************************************************************)
(* display_notebook of main.py: the notebook file is opened and parsed,    *)
(* then every cell is written to the Streamlit display, one st.* call      *)
(* after the other.  The display is the sequence `st` of the blocks the    *)
(* st.* calls have produced so far.                                        *)
(*                                                                         *)
(* A JSON object is a TLA+ record whose DOMAIN is its key set; a JSON      *)
(* value that is no object is the record [nondict |-> <python type>].      *)
(* A value handed to ''.join is [tag, v]: a string ("str", one fragment),  *)
(* a list of strings ("list") or anything join rejects ("bad").            *)
(***************************************************************************)
EXTENDS Integers, Sequences, FiniteSets, TLC

VARIABLES doc, run, pc, i, j, st, origin, exc, prev

vars == <<doc, run, pc, i, j, st, origin, exc, prev>>

\* Largest number of cells of a document.
MaxCells == 2
\* Largest number of outputs of a document (all its code cells together).
MaxOutputs == 2

(***************************************************************************)
(* Python helpers                                                          *)
(***************************************************************************)
RECURSIVE StrJoin(_, _)
\* sep.join(frags)
StrJoin(sep, frags) ==
    IF frags = <<>> THEN ""
    ELSE IF Len(frags) = 1 THEN frags[1]
    ELSE frags[1] \o sep \o StrJoin(sep, Tail(frags))

IsDict(v) == "nondict" \notin DOMAIN v

\* d.get(key, default)
Get(d, key, default) == IF key \in DOMAIN d THEN d[key] ELSE default

Str(s) == [tag |-> "str", v |-> <<s>>]
List(fs) == [tag |-> "list", v |-> fs]
BadList == [tag |-> "bad", v |-> <<>>]

Joinable(x) == x.tag # "bad"

JoinWithNewlines(x) == StrJoin("\n", x.v)
\* ''.join(x)
Join(x) == StrJoin("", x.v)

(***************************************************************************)
(* Display blocks: one per st.* call                                       *)
(***************************************************************************)
Markdown(t) == [kind |-> "markdown", text |-> t]
Code(t) == [kind |-> "code", text |-> t]
Text(t) == [kind |-> "text", text |-> t]
Image(t) == [kind |-> "image", text |-> t]
Error(t) == [kind |-> "error", text |-> t]
Info(t) == [kind |-> "info", text |-> t]

Title == Markdown("## Notebook Contents")
Separator == Markdown("---")
OutputLabel == Markdown("**Output:**")
InfoHint == Info("Please make sure the notebook file is in the same directory as this app.")

HeadingZeroBased(name, idx) == Markdown("### " \o name \o " Cell " \o ToString(idx))
\* st.markdown(f"### {name} Cell {i+1}")
Heading(name, idx) == Markdown("### " \o name \o " Cell " \o ToString(idx + 1))

\* The two calls of the except clause.
FailureBlocks(msg) == <<Error("Error loading notebook: " \o msg), InfoHint>>

(***************************************************************************)
(* Exceptions: str(e) of what the statements raise                         *)
(***************************************************************************)
OpenError(file) ==
    CASE file = "missing" -> "[Errno 2] No such file or directory: 'nb.ipynb'"
      [] file = "unreadable" -> "[Errno 13] Permission denied: 'nb.ipynb'"
      [] file = "badutf8" -> "'utf-8' codec can't decode byte 0xff in position 0"
      [] file = "badjson" -> "Expecting value: line 1 column 1 (char 0)"
      [] OTHER -> ""

NoGet(v) == "'" \o v.nondict \o "' object has no attribute 'get'"
NotIterable(v) == "argument of type '" \o v.nondict \o "' is not iterable"
JoinError == "sequence item 0: expected str instance, int found"

Ok(fields) == [raised |-> FALSE, msg |-> ""] @@ fields
Raised(m) == [raised |-> TRUE, msg |-> m]

(***************************************************************************)
(* The input: the file display_notebook is called on                       *)
(***************************************************************************)
MdSource == List(<<"# Hi", "\nbody">>)
CodeSource == Str("x = 1")

ErrorOut == [output_type |-> "error", traceback |-> <<"line1", "line2">>]
MixedOut ==
    [traceback |-> <<"e1", "e2">>, text |-> List(<<"4", "2">>),
     data |-> ("text/plain" :> List(<<"r">>))]
BadImageOut == [data |-> ("text/plain" :> List(<<"<Fig>">>) @@ "image/png" :> "%%%")]
ImageOut == [data |-> ("image/png" :> "aGk=")]
NumberOut == [nondict |-> "int"]

Outputs == {ErrorOut, MixedOut, BadImageOut, ImageOut, NumberOut}

\* The payloads base64 decodes.
IsBase64(s) == s \in {"aGk="}

\* The lists of at most n outputs.
OutputSeqs(n) == UNION {[1..k -> Outputs] : k \in 0..n}

PlainCells ==
    { [cell_type |-> "markdown", source |-> MdSource],
      [cell_type |-> "raw", source |-> Str("raw")],
      [cell_type |-> "raw", source |-> BadList],
      [id |-> "c0"] }

\* The cells with at most n outputs.
Cells(n) ==
    PlainCells \cup
    { [cell_type |-> "code", source |-> CodeSource, outputs |-> outs] : outs \in OutputSeqs(n) }

NOutputs(cell) == IF IsDict(cell) THEN Len(Get(cell, "outputs", <<>>)) ELSE 0

RECURSIVE CellSeqs(_, _)
\* The lists of at most n cells that hold at most m outputs together.
CellSeqs(n, m) ==
    IF n = 0 THEN {<<>>}
    ELSE {<<>>} \cup
         UNION { { <<c>> \o rest : rest \in CellSeqs(n - 1, m - NOutputs(c)) } : c \in Cells(m) }

NoJson == [nondict |-> "NoneType"]

Docs ==
    { [file |-> f, json |-> NoJson] : f \in {"missing", "unreadable", "badutf8", "badjson"} }
    \cup { [file |-> "ok", json |-> [nondict |-> "list"]],
           [file |-> "ok", json |-> [nbformat |-> "4"]] }
    \cup { [file |-> "ok", json |-> [nbformat |-> "4", cells |-> cs]] : cs \in CellSeqs(MaxCells, MaxOutputs) }

(***************************************************************************)
(* display_notebook                                                        *)
(***************************************************************************)
\* notebook_content.get('cells', [])
NotebookCells == Get(doc.json, "cells", <<>>)

\* cell_type and source of a cell (the first two statements of the loop body)
CellHead(cell) ==
    IF ~IsDict(cell) THEN Raised(NoGet(cell))
    ELSE LET source == Get(cell, "source", Str(""))
         IN  IF ~Joinable(source) THEN Raised(JoinError)
             ELSE Ok([cell_type |-> Get(cell, "cell_type", ""), source |-> Join(source)])

DataBlocksEagerDecode(data) ==
    IF ~IsDict(data) THEN Raised(NotIterable(data))
    ELSE IF "text/plain" \in DOMAIN data /\ ~Joinable(data["text/plain"])
    THEN Raised(JoinError)
    ELSE IF "image/png" \in DOMAIN data /\ ~IsBase64(data["image/png"])
    THEN Raised("Incorrect padding")
    ELSE Ok([blocks |->
               (IF "text/plain" \in DOMAIN data
                THEN <<Code(Join(data["text/plain"]))>> ELSE <<>>)
               \o (IF "image/png" \in DOMAIN data
                   THEN <<Image("data:image/png;base64," \o data["image/png"])>>
                   ELSE <<>>)])

\* the blocks of output['data']
DataBlocks(data) ==
    IF ~IsDict(data) THEN Raised(NotIterable(data))
    ELSE IF "text/plain" \in DOMAIN data /\ ~Joinable(data["text/plain"])
    THEN Raised(JoinError)
    ELSE Ok([blocks |->
               (IF "text/plain" \in DOMAIN data
                THEN <<Code(Join(data["text/plain"]))>> ELSE <<>>)
               \o (IF "image/png" \in DOMAIN data
                   THEN <<Image("data:image/png;base64," \o data["image/png"])>>
                   ELSE <<>>)])

TextBlocks(text) ==
    IF ~Joinable(text) THEN Raised(JoinError) ELSE Ok([blocks |-> <<Text(Join(text))>>])

OutputBlocksTraceback(output) ==
    IF ~IsDict(output) THEN Raised(NotIterable(output))
    ELSE IF "traceback" \in DOMAIN output
    THEN Ok([blocks |-> <<Text(StrJoin("\n", output.traceback))>>])
    ELSE IF "text" \in DOMAIN output THEN TextBlocks(output.text)
    ELSE IF "data" \in DOMAIN output THEN DataBlocks(output.data)
    ELSE Ok([blocks |-> <<>>])

OutputBlocksDataFirst(output) ==
    IF ~IsDict(output) THEN Raised(NotIterable(output))
    ELSE IF "data" \in DOMAIN output THEN DataBlocks(output.data)
    ELSE IF "text" \in DOMAIN output THEN TextBlocks(output.text)
    ELSE Ok([blocks |-> <<>>])

\* the body of `for output in outputs`
OutputBlocks(output) ==
    IF ~IsDict(output) THEN Raised(NotIterable(output))
    ELSE IF "text" \in DOMAIN output THEN TextBlocks(output.text)
    ELSE IF "data" \in DOMAIN output THEN DataBlocks(output.data)
    ELSE Ok([blocks |-> <<>>])

\* st.* calls made for cell `c` (1-based), output `o` of it (0: none)
Emit(blocks, c, o) ==
    /\ st' = st \o blocks
    /\ origin' = origin \o [n \in 1..Len(blocks) |-> <<c, o>>]

Raise(msg) ==
    /\ pc' = "except"
    /\ exc' = msg

HasNext == i + 1 < Len(NotebookCells)
NextCell == NotebookCells[i + 2]
CurOutputs == Get(NotebookCells[i + 1], "outputs", <<>>)

Init ==
    /\ doc \in Docs
    /\ run = 1
    /\ pc = "open"
    /\ i = -1
    /\ j = 0
    /\ st = <<>>
    /\ origin = <<>>
    /\ exc = ""
    /\ prev = <<>>

LoadTitleFirst ==
    /\ pc = "open"
    /\ Emit(<<Title>>, 0, 0)
    /\ IF doc.file # "ok"
       THEN Raise(OpenError(doc.file))
       ELSE pc' = "title" /\ exc' = exc
    /\ UNCHANGED <<doc, run, i, j, prev>>

\* with open(notebook_path, 'r', encoding='utf-8') as f: json.load(f)
Load ==
    /\ pc = "open"
    /\ IF doc.file # "ok"
       THEN Raise(OpenError(doc.file))
       ELSE pc' = "title" /\ exc' = exc
    /\ UNCHANGED <<doc, run, i, j, st, origin, prev>>

StartLoopNoDefault ==
    /\ pc = "title"
    /\ Emit(<<Title>>, 0, 0)
    /\ IF ~IsDict(doc.json)
       THEN Raise(NoGet(doc.json)) /\ i' = i
       ELSE IF "cells" \notin DOMAIN doc.json
       THEN Raise("'cells'") /\ i' = i
       ELSE pc' = "for" /\ exc' = exc /\ i' = -1
    /\ UNCHANGED <<doc, run, j, prev>>

StartLoopKeepsCounter ==
    /\ pc = "title"
    /\ Emit(<<Title>>, 0, 0)
    /\ IF ~IsDict(doc.json)
       THEN Raise(NoGet(doc.json)) /\ i' = i
       ELSE pc' = "for" /\ exc' = exc /\ i' = i
    /\ UNCHANGED <<doc, run, j, prev>>

\* st.markdown("## Notebook Contents"), then enumerate(notebook_content.get(...))
StartLoop ==
    /\ pc = "title"
    /\ Emit(<<Title>>, 0, 0)
    /\ IF ~IsDict(doc.json)
       THEN Raise(NoGet(doc.json)) /\ i' = i
       ELSE pc' = "for" /\ exc' = exc /\ i' = -1
    /\ UNCHANGED <<doc, run, j, prev>>

\* a cell whose first two statements raise
FailCell ==
    /\ pc = "for"
    /\ HasNext
    /\ CellHead(NextCell).raised
    /\ i' = i + 1
    /\ Raise(CellHead(NextCell).msg)
    /\ UNCHANGED <<doc, run, j, st, origin, prev>>

\* if cell_type == 'markdown'
MarkdownCell ==
    /\ pc = "for"
    /\ HasNext
    /\ ~CellHead(NextCell).raised
    /\ CellHead(NextCell).cell_type = "markdown"
    /\ i' = i + 1
    /\ Emit(<<Heading("Markdown", i'), Markdown(CellHead(NextCell).source), Separator>>,
            i' + 1, 0)
    /\ UNCHANGED <<doc, run, pc, j, exc, prev>>

\* elif cell_type == 'code', up to the loop over the outputs
CodeCell ==
    /\ pc = "for"
    /\ HasNext
    /\ ~CellHead(NextCell).raised
    /\ CellHead(NextCell).cell_type = "code"
    /\ i' = i + 1
    /\ j' = 0
    /\ pc' = "forout"
    /\ Emit(<<Heading("Code", i'), Code(CellHead(NextCell).source)>>
            \o (IF Get(NextCell, "outputs", <<>>) # <<>> THEN <<OutputLabel>> ELSE <<>>),
            i' + 1, 0)
    /\ UNCHANGED <<doc, run, exc, prev>>

\* one iteration of `for output in outputs`
Output ==
    /\ pc = "forout"
    /\ j < Len(CurOutputs)
    /\ j' = j + 1
    /\ LET r == OutputBlocks(CurOutputs[j'])
       IN  IF r.raised
           THEN Raise(r.msg) /\ UNCHANGED <<st, origin>>
           ELSE Emit(r.blocks, i + 1, j') /\ UNCHANGED <<pc, exc>>
    /\ UNCHANGED <<doc, run, i, prev>>

\* st.markdown("---") closing a code cell
EndCodeCell ==
    /\ pc = "forout"
    /\ j = Len(CurOutputs)
    /\ pc' = "for"
    /\ Emit(<<Separator>>, i + 1, 0)
    /\ UNCHANGED <<doc, run, i, j, exc, prev>>

\* any other cell_type: neither branch is taken
OtherCell ==
    /\ pc = "for"
    /\ HasNext
    /\ ~CellHead(NextCell).raised
    /\ CellHead(NextCell).cell_type \notin {"markdown", "code"}
    /\ i' = i + 1
    /\ UNCHANGED <<doc, run, pc, j, st, origin, exc, prev>>

\* the loop is exhausted: display_notebook returns
Return ==
    /\ pc = "for"
    /\ ~HasNext
    /\ pc' = "done"
    /\ UNCHANGED <<doc, run, i, j, st, origin, exc, prev>>

ExceptClears ==
    /\ pc = "except"
    /\ pc' = "done"
    /\ st' = FailureBlocks(exc)
    /\ origin' = <<<<0, 0>>, <<0, 0>>>>
    /\ UNCHANGED <<doc, run, i, j, exc, prev>>

\* except Exception as e: st.error(...); st.info(...)
Except ==
    /\ pc = "except"
    /\ pc' = "done"
    /\ Emit(FailureBlocks(exc), 0, 0)
    /\ UNCHANGED <<doc, run, i, j, exc, prev>>

\* the page is run again: display_notebook is called on the same file
Rerun ==
    /\ pc = "done"
    /\ run = 1
    /\ run' = run + 1
    /\ prev' = st
    /\ pc' = "open"
    /\ st' = <<>>
    /\ origin' = <<>>
    /\ exc' = ""
    /\ UNCHANGED <<doc, i, j>>

Next ==
    \/ Load
    \/ StartLoop
    \/ FailCell
    \/ MarkdownCell
    \/ CodeCell
    \/ Output
    \/ EndCodeCell
    \/ OtherCell
    \/ Return
    \/ Except
    \/ Rerun

Spec == Init /\ [][Next]_vars

TypeOK ==
    /\ pc \in {"open", "title", "for", "forout", "except", "done"}
    /\ run \in 1..2
    /\ Len(origin) = Len(st)

(***************************************************************************)
(* What the claims speak about                                             *)
(***************************************************************************)
IsPrefix(s, t) == Len(s) <= Len(t) /\ SubSeq(t, 1, Len(s)) = s

RECURSIVE Pick(_, _, _)
\* The blocks whose origin is in `want`, in display order.
Pick(blocks, orig, want) ==
    IF blocks = <<>> THEN <<>>
    ELSE (IF Head(orig) \in want THEN <<Head(blocks)>> ELSE <<>>)
         \o Pick(Tail(blocks), Tail(orig), want)

\* The blocks on display that cell k (1-based) produced.
CellBlocks(k) == Pick(st, origin, {<<k, o>> : o \in 0..Len(st)})
\* The blocks on display that output o of cell k produced.
OutBlocks(k, o) == Pick(st, origin, {<<k, o>>})

Positions == 1..Len(NotebookCells)
CellAt(k) == NotebookCells[k]
TypeOf(cell) == IF IsDict(cell) THEN Get(cell, "cell_type", "") ELSE ""
OutputsOf(k) == IF IsDict(CellAt(k)) THEN Get(CellAt(k), "outputs", <<>>) ELSE <<>>
SourceOk(cell) == IsDict(cell) /\ Joinable(Get(cell, "source", Str("")))

Failed == pc \in {"except", "done"} /\ exc # ""
Returned == pc = "done" /\ exc = ""

\* The number of cells this call has processed to their end.
CellsDone ==
    CASE pc = "for" -> i + 1
      [] pc = "forout" -> i
      [] Returned -> i + 1
      [] Failed -> IF i < 0 THEN 0 ELSE i
      [] OTHER -> 0

\* The failure was raised by the body of the loop over the outputs of cell i+1.
FailedInOutput ==
    /\ Failed
    /\ i >= 0
    /\ i + 1 \in Positions
    /\ SourceOk(CellAt(i + 1))
    /\ TypeOf(CellAt(i + 1)) = "code"

\* Output o of cell k has been processed to its end, without raising.
OutDone(k, o) ==
    \/ k <= CellsDone
    \/ k = i + 1 /\ pc = "forout" /\ o <= j
    \/ k = i + 1 /\ FailedInOutput /\ o < j

\* The loop body has run on output o of cell k, to its end or to a raise.
OutRun(k, o) == OutDone(k, o) \/ (k = i + 1 /\ FailedInOutput /\ o = j)

\* The heading the spec gives the cell at 1-based position pos.
Labelled(name, pos) == [kind |-> "markdown", text |-> "### " \o name \o " Cell " \o ToString(pos)]

IsLabel(b) ==
    \E name \in {"Markdown", "Code"}, pos \in 0..(Len(NotebookCells) + 1) :
        b = Labelled(name, pos)

RECURSIVE Labels(_, _)
\* The headings of the rendered cells of `cells`, the first of which is at position pos.
Labels(cells, pos) ==
    IF cells = <<>> THEN <<>>
    ELSE (CASE TypeOf(Head(cells)) = "markdown" -> <<Labelled("Markdown", pos)>>
            [] TypeOf(Head(cells)) = "code" -> <<Labelled("Code", pos)>>
            [] OTHER -> <<>>)
         \o Labels(Tail(cells), pos + 1)

\* C1: the blocks of cell k come before the blocks of cell k+1, and the headings on
\* display are, in order, those of the rendered cells, each labelled with the cell's
\* 1-based position in `cells` (an ignored cell uses up its position).
TheoremC1 ==
    /\ \A a, b \in 1..Len(st) :
          (a < b /\ origin[a][1] > 0 /\ origin[b][1] > 0) => origin[a][1] <= origin[b][1]
    /\ IsPrefix(SelectSeq(st, IsLabel), Labels(NotebookCells, 1))
    /\ Returned => SelectSeq(st, IsLabel) = Labels(NotebookCells, 1)

WitnessC1 ==
    /\ Returned
    /\ Len(NotebookCells) = 2
    /\ TypeOf(CellAt(1)) = "raw"
    /\ TypeOf(CellAt(2)) = "code"
    /\ SelectSeq(st, IsLabel) = <<Labelled("Code", 2)>>

\* C2 as claimed: after a failure no block of a cell processed before the failing one
\* is on display.
CounterC2 ==
    (pc = "done" /\ exc # "") =>
        \A n \in 1..Len(st) : ~(1 <= origin[n][1] /\ origin[n][1] <= CellsDone)

\* C2 amended: within a call no block is ever taken off the display; the except
\* clause appends the error block and the hint after what is already shown, and the
\* call ends there, so that nothing of a later cell follows.
TheoremC2 ==
    [][ /\ (run' = run) => IsPrefix(st, st')
        /\ (pc = "except") => (st' = st \o FailureBlocks(exc) /\ pc' = "done")
        /\ (pc = "done") => (run' # run) ]_vars

WitnessC2 ==
    /\ pc = "done"
    /\ exc # ""
    /\ i >= 1
    /\ CellBlocks(1) # <<>>
    /\ SubSeq(st, Len(st) - 1, Len(st)) = FailureBlocks(exc)

TracebackOnly(out) ==
    /\ IsDict(out)
    /\ "traceback" \in DOMAIN out
    /\ "text" \notin DOMAIN out
    /\ "data" \notin DOMAIN out

\* C3 as claimed: an error output with a traceback and no text or data key gives
\* exactly one block, the traceback lines joined with newlines.
CounterC3 ==
    \A k \in Positions : \A o \in 1..Len(OutputsOf(k)) :
        (OutDone(k, o) /\ TracebackOnly(OutputsOf(k)[o])) =>
            /\ Len(OutBlocks(k, o)) = 1
            /\ OutBlocks(k, o)[1].text = StrJoin("\n", OutputsOf(k)[o].traceback)

\* C3 amended: an error output with a traceback and no text or data key is passed
\* over: no block is emitted for it.
TheoremC3 ==
    \A k \in Positions : \A o \in 1..Len(OutputsOf(k)) :
        (OutDone(k, o) /\ TracebackOnly(OutputsOf(k)[o])) => OutBlocks(k, o) = <<>>

WitnessC3 ==
    /\ Returned
    /\ \E k \in Positions : \E o \in 1..Len(OutputsOf(k)) :
          /\ TracebackOnly(OutputsOf(k)[o])
          /\ OutBlocks(k, o) = <<>>
          /\ CellBlocks(k)[3] = OutputLabel

\* C4: a file that is missing, unreadable, not UTF-8 or not JSON gives no render
\* block; the call ends in the except clause with the error message on display.
TheoremC4 ==
    (doc.file # "ok") =>
        /\ pc \in {"open", "except", "done"}
        /\ \A n \in 1..Len(st) : st[n].kind \in {"error", "info"}
        /\ (pc = "done") =>
              /\ exc = OpenError(doc.file)
              /\ st = <<[kind |-> "error", text |-> "Error loading notebook: " \o exc], InfoHint>>

WitnessC4 ==
    /\ doc.file = "badjson"
    /\ pc = "done"
    /\ st = FailureBlocks("Expecting value: line 1 column 1 (char 0)")

NoCells == doc.file = "ok" /\ IsDict(doc.json) /\ Get(doc.json, "cells", <<>>) = <<>>

\* C5 as claimed: a document with `cells: []` or without `cells` gives no block.
CounterC5 == (pc = "done" /\ NoCells) => (exc = "" /\ st = <<>>)

\* C5 amended: a document with `cells: []` or without `cells` ends without an error
\* and the only block emitted is the title "## Notebook Contents".
TheoremC5 ==
    (pc = "done" /\ NoCells) =>
        (exc = "" /\ st = <<[kind |-> "markdown", text |-> "## Notebook Contents"]>>)

WitnessC5 ==
    /\ pc = "done"
    /\ doc.file = "ok"
    /\ IsDict(doc.json)
    /\ "cells" \notin DOMAIN doc.json
    /\ st = <<Title>>

\* The output reaches `if 'image/png' in data` and the payload is not base64.
MalformedImage(out) ==
    /\ IsDict(out)
    /\ "text" \notin DOMAIN out
    /\ "data" \in DOMAIN out
    /\ IsDict(out.data)
    /\ "image/png" \in DOMAIN out.data
    /\ ("text/plain" \in DOMAIN out.data) => Joinable(out.data["text/plain"])
    /\ ~IsBase64(out.data["image/png"])

After(a, b) == a[1] > b[1] \/ (a[1] = b[1] /\ a[2] > b[2])

\* C6 as claimed: a malformed image/png payload ends the render with a failure and
\* nothing of a later output or cell is emitted.
CounterC6 ==
    \A k \in Positions : \A o \in 1..Len(OutputsOf(k)) :
        (OutRun(k, o) /\ MalformedImage(OutputsOf(k)[o])) =>
            /\ Failed
            /\ \A n \in 1..Len(st) : ~After(origin[n], <<k, o>>)

\* C6 amended: the payload is not decoded; the output is processed to its end without
\* raising and its last block is the image block of the data URI made of the payload
\* as it stands.
TheoremC6 ==
    \A k \in Positions : \A o \in 1..Len(OutputsOf(k)) :
        (OutRun(k, o) /\ MalformedImage(OutputsOf(k)[o])) =>
            /\ OutDone(k, o)
            /\ OutBlocks(k, o) # <<>>
            /\ OutBlocks(k, o)[Len(OutBlocks(k, o))] =
                  [kind |-> "image",
                   text |-> "data:image/png;base64," \o OutputsOf(k)[o].data["image/png"]]

WitnessC6 ==
    /\ Returned
    /\ \E k \in Positions :
          /\ Len(OutputsOf(k)) = 2
          /\ MalformedImage(OutputsOf(k)[1])
          /\ OutBlocks(k, 2) # <<>>
          /\ k < Len(NotebookCells)
          /\ CellBlocks(k + 1) # <<>>

\* C7: a cell whose cell_type is neither markdown nor code (or is missing) gives no
\* block and no error, and the cells after it are rendered.
CounterC7 ==
    \A k \in Positions :
        (/\ pc \in {"for", "forout", "except", "done"}
         /\ k <= i + 1
         /\ IsDict(CellAt(k))
         /\ TypeOf(CellAt(k)) \notin {"markdown", "code"}) =>
            /\ CellBlocks(k) = <<>>
            /\ ~(Failed /\ k = i + 1)

\* C8: a second call on the same file shows what the first call showed.
TheoremC8 == (run = 2 /\ pc = "done") => st = prev

WitnessC8 ==
    /\ run = 2
    /\ pc = "done"
    /\ exc = ""
    /\ Len(NotebookCells) = 2
    /\ Len(st) > 5
    /\ st = prev

\* C9 as claimed: precedence traceback > text > data, one block per output.
CounterC9 ==
    \A k \in Positions : \A o \in 1..Len(OutputsOf(k)) :
        LET out == OutputsOf(k)[o]
        IN  (OutDone(k, o) /\ IsDict(out)) =>
              /\ ("traceback" \in DOMAIN out /\ "text" \in DOMAIN out) =>
                    OutBlocks(k, o) = <<Text(StrJoin("\n", out.traceback))>>
              /\ ("traceback" \notin DOMAIN out /\ "text" \in DOMAIN out
                    /\ "data" \in DOMAIN out) =>
                    OutBlocks(k, o) = <<Text(StrJoin("", out.text.v))>>

\* C9 amended: precedence text > data, and `traceback` is never looked at: an output
\* with `text` gives the plain-text block only, whatever other keys it has; one
\* without `text` and with `data` gives only the blocks of `data`; any other gives
\* no block.
TheoremC9 ==
    \A k \in Positions : \A o \in 1..Len(OutputsOf(k)) :
        LET out == OutputsOf(k)[o]
        IN  (OutDone(k, o) /\ IsDict(out)) =>
              /\ ("text" \in DOMAIN out) =>
                    OutBlocks(k, o) = <<[kind |-> "text", text |-> StrJoin("", out.text.v)]>>
              /\ ("text" \notin DOMAIN out /\ "data" \in DOMAIN out) =>
                    \A n \in 1..Len(OutBlocks(k, o)) :
                        OutBlocks(k, o)[n].kind \in {"code", "image"}
              /\ ("text" \notin DOMAIN out /\ "data" \notin DOMAIN out) =>
                    OutBlocks(k, o) = <<>>

WitnessC9 ==
    \E k \in Positions : \E o \in 1..Len(OutputsOf(k)) :
        /\ OutDone(k, o)
        /\ IsDict(OutputsOf(k)[o])
        /\ {"traceback", "text", "data"} \subseteq DOMAIN OutputsOf(k)[o]
        /\ OutBlocks(k, o) = <<Text("42")>>

IsMarkdownCell(k) == SourceOk(CellAt(k)) /\ TypeOf(CellAt(k)) = "markdown"

\* C10 as claimed: a markdown cell gives two blocks, heading and text, and no more.
CounterC10 ==
    \A k \in Positions :
        (k <= CellsDone /\ IsMarkdownCell(k)) =>
            CellBlocks(k) = <<Labelled("Markdown", k),
                              [kind |-> "markdown", text |-> StrJoin("", CellAt(k).source.v)]>>

\* C10 amended: a markdown cell gives three blocks: the heading with its position,
\* the source fragments concatenated with nothing between them, and a "---" rule;
\* after the last cell nothing more is emitted.
TheoremC10 ==
    /\ \A k \in Positions :
          (k <= CellsDone /\ IsMarkdownCell(k)) =>
              CellBlocks(k) = <<Labelled("Markdown", k),
                                [kind |-> "markdown", text |-> StrJoin("", CellAt(k).source.v)],
                                [kind |-> "markdown", text |-> "---"]>>
    /\ (Returned /\ NotebookCells # <<>> /\ IsMarkdownCell(Len(NotebookCells))) =>
          /\ origin[Len(st)] = <<Len(NotebookCells), 0>>
          /\ st[Len(st)] = [kind |-> "markdown", text |-> "---"]

WitnessC10 ==
    /\ Returned
    /\ Len(NotebookCells) = 2
    /\ IsMarkdownCell(2)
    /\ st[Len(st) - 1] = [kind |-> "markdown", text |-> "# Hi\nbody"]

====
